---- MODULE Spec2Model ----
(***************************************************************************)
(* The XPay runtime module (runtime/src/xpay.rs): a marketplace of items   *)
(* kept in four storage maps keyed by ItemId plus the NextItemId counter,  *)
(* with the five dispatchable calls create_item, add_item, remove_item,    *)
(* update_item and purchase_item.                                          *)
(*                                                                         *)
(* Every call is one action: it runs to its Ok or Err return and leaves in *)
(* call, pre, result, payment and events what was called, the storage it   *)
(* was called on and what came of it; `dispatched` then hands control back *)
(* and the next call can be made. The payment primitives of generic_asset  *)
(* and cennzx_spot are other pallets; their return value is an input of    *)
(* the purchase_item action, and the call made to them is recorded in      *)
(* `payment`.                                                              *)
(*                                                                         *)
(* Integer types are scaled: TLC has no integers above 2^31 - 1, so u32 is *)
(* modelled as 0..U32_MAX, the Balance type as 0..BalanceMax and ItemId as *)
(* 0..ItemIdMax, with the saturating and checked arithmetic of the code    *)
(* acting at these maxima.                                                 *)
(***************************************************************************)
EXTENDS Integers, Sequences, FiniteSets, TLC

\* ------------------------------------------------------------------ bounds
\* Largest value of the ItemId type (T::ItemId is a type parameter).
ItemIdMax == 2
\* Largest value of the quantity type (u32::MAX, scaled).
U32_MAX == 2
\* Largest value of the Balance type (BalanceOf<T> is a type parameter).
\* It is kept above U32_MAX: the code widens the quantity into a Balance.
BalanceMax == 3

\* ------------------------------------------------------------- value sets
ItemIds == 0..ItemIdMax
U32 == 0..U32_MAX
Balances == 0..BalanceMax
Accounts == {"alice", "bob"}
ItemValues == {"item"}
AssetIds == {"assetA", "assetB"}
Prices == AssetIds \X Balances
\* The prices items are listed at: a small unit price in one asset and a
\* large one in the other.
ListPrices == {<<"assetA", 1>>, <<"assetB", BalanceMax - 1>>}
FeeRates == {"fee1", "fee2"}

\* Option<T>: None is the empty tuple, Some(v) the one-element tuple.
None == <<>>
Some(v) == <<v>>
Option(S) == {None} \cup {Some(v) : v \in S}

\* An origin is signed by an account, or it is not signed (Root, None).
Origins == {<<"Signed", a>> : a \in Accounts} \cup {<<"Unsigned">>}

\* ------------------------------------------------------------ result type
Ok == "Ok"
ErrBadOrigin == "bad origin: expected to be a signed origin"
ErrNoItemId == "No new item id is available."
ErrNotExist == "Item did not exist"
ErrQuantity == "Not enough quantity"
ErrNoPrice == "No item price"
ErrNoOwner == "No item owner"
ErrOverflow == "Total price overflow"
ErrPriceLow == "User paying price too low"
\* What the payment primitives can return on failure (their own errors).
ExternalErrors == {"payment failed"}
PaymentReturns == {Ok} \cup ExternalErrors

VARIABLES
    Items,           \* map ItemId => Option<Item>
    ItemOwners,      \* map ItemId => Option<AccountId>
    ItemQuantities,  \* map ItemId => u32; None where no entry is stored
    ItemPrices,      \* map ItemId => Option<Price>
    NextItemId,      \* ItemId
    fee_rate,        \* cennzx_spot's fee rate, read by purchase_item
    call,            \* Some(the call that just ran, with its arguments)
    pre,             \* the storage it ran on
    result,          \* what it returned: Ok or the error
    payment,         \* Some(the payment call it made, with its return)
    events,          \* the events it deposited
    added            \* per id, the quantity its current run of add_item
                     \* calls started from and the sum added in the run

storage == <<Items, ItemOwners, ItemQuantities, ItemPrices, NextItemId>>
vars == <<Items, ItemOwners, ItemQuantities, ItemPrices, NextItemId,
          fee_rate, call, pre, result, payment, events, added>>

\* ---------------------------------------------------------- pure helpers
Signed(origin) == origin[1] = "Signed"

ensure_signed(origin) ==
    IF origin[1] = "Signed" THEN Some(origin[2]) ELSE None

\* ItemQuantities get(item_quantity): the stored value, or u32's default.
item_quantity(id) ==
    IF ItemQuantities[id] = None THEN 0 ELSE ItemQuantities[id][1]

item_price(id) == ItemPrices[id]
item_owner(id) == ItemOwners[id]

item_exists_T(id) == TRUE

item_exists_M(id) == ItemQuantities[id] # None

\* <Items<T>>::exists(item_id)
item_exists(id) == Items[id] # None

insert_M(map, key, value) ==
    IF map[key] = None THEN [map EXCEPT ![key] = Some(value)] ELSE map

\* StorageMap::insert(key, value): the entry is written, whatever was there.
insert(map, key, value) == [map EXCEPT ![key] = Some(value)]

checked_add_W(x, y) ==
    IF x + y > ItemIdMax THEN Some((x + y) % (ItemIdMax + 1)) ELSE Some(x + y)

checked_add_M(x, y) ==
    IF x + y > ItemIdMax THEN Some(x) ELSE Some(x + y)

checked_add(x, y) ==
    IF x + y > ItemIdMax THEN None ELSE Some(x + y)

saturating_add_M(a, b) == (a + b) % (U32_MAX + 1)

saturating_add(a, b) ==
    IF a + b > U32_MAX THEN U32_MAX ELSE a + b

saturating_sub_M(a, b) ==
    IF b > a THEN (a - b) + U32_MAX + 1 ELSE a - b

saturating_sub(a, b) ==
    IF b > a THEN 0 ELSE a - b

checked_sub_M(a, b) ==
    IF b > a THEN Some((a - b) + U32_MAX + 1) ELSE Some(a - b)

checked_sub(a, b) ==
    IF b > a THEN None ELSE Some(a - b)

checked_mul_M(a, b) == Some((a * b) % (BalanceMax + 1))

checked_mul(a, b) ==
    IF a * b > BalanceMax THEN None ELSE Some(a * b)

\* As::sa(quantity as u64): the u32 is zero-extended to u64 and converted
\* to the Balance type, which keeps the low bits that fit.
sa(quantity) == quantity % (BalanceMax + 1)

\* ------------------------------------------------------------------- Init
Init ==
    /\ Items = [i \in ItemIds |-> None]
    /\ ItemOwners = [i \in ItemIds |-> None]
    /\ ItemQuantities = [i \in ItemIds |-> None]
    /\ ItemPrices = [i \in ItemIds |-> None]
    /\ NextItemId = 0
    /\ fee_rate \in FeeRates
    /\ call = None
    /\ pre = None
    /\ result = Ok
    /\ payment = None
    /\ events = <<>>
    /\ added = [i \in ItemIds |-> [q0 |-> 0, sum |-> 0]]

\* What every call records on entry: itself and the storage it runs on.
Enter(c) ==
    /\ call = None
    /\ call' = Some(c)
    /\ pre' = storage
    /\ UNCHANGED fee_rate

\* A call that returns an error before any write.
Fail(err) ==
    /\ result' = err
    /\ payment' = None
    /\ events' = <<>>
    /\ UNCHANGED storage

\* ------------------------------------------------------------ create_item
create_item(origin, quantity, item, price) ==
    LET who == ensure_signed(origin)
        item_id == NextItemId
        next_item_id == checked_add(item_id, 1)
    IN  /\ Enter([op |-> "create_item", origin |-> origin,
                  quantity |-> quantity, item |-> item, price |-> price])
        /\ IF who = None THEN Fail(ErrBadOrigin)
           ELSE IF next_item_id = None THEN Fail(ErrNoItemId)
           ELSE /\ NextItemId' = next_item_id[1]
                /\ Items' = insert(Items, item_id, item)
                /\ ItemOwners' = insert(ItemOwners, item_id, who[1])
                /\ ItemQuantities' = insert(ItemQuantities, item_id, quantity)
                /\ ItemPrices' = insert(ItemPrices, item_id, price)
                /\ events' = << <<"ItemCreated", who[1], item_id, quantity,
                                  item, price>> >>
                /\ result' = Ok
                /\ payment' = None

add_item_M(origin, item_id, quantity) ==
    LET who == ensure_signed(origin)
        q == saturating_add(item_quantity(item_id), quantity)
    IN  /\ Enter([op |-> "add_item", origin |-> origin, item_id |-> item_id,
                  quantity |-> quantity])
        /\ IF who = None THEN Fail(ErrBadOrigin)
           ELSE IF ~item_exists(item_id) THEN Fail(ErrNotExist)
           ELSE /\ ItemQuantities' = insert(ItemQuantities, item_id, q)
                /\ events' = << <<"ItemAdded", who[1], item_id, q>> >>
                /\ result' = Ok
                /\ payment' = None
                /\ UNCHANGED <<Items, ItemOwners, ItemPrices, NextItemId>>

\* --------------------------------------------------------------- add_item
add_item(origin, item_id, quantity) ==
    LET who == ensure_signed(origin)
        q == saturating_add(item_quantity(item_id), quantity)
    IN  /\ Enter([op |-> "add_item", origin |-> origin, item_id |-> item_id,
                  quantity |-> quantity])
        /\ IF who = None THEN Fail(ErrBadOrigin)
           ELSE /\ ItemQuantities' = insert(ItemQuantities, item_id, q)
                /\ events' = << <<"ItemAdded", who[1], item_id, q>> >>
                /\ result' = Ok
                /\ payment' = None
                /\ UNCHANGED <<Items, ItemOwners, ItemPrices, NextItemId>>

remove_item_M(origin, item_id, quantity) ==
    LET who == ensure_signed(origin)
        q == saturating_sub(item_quantity(item_id), quantity)
    IN  /\ Enter([op |-> "remove_item", origin |-> origin,
                  item_id |-> item_id, quantity |-> quantity])
        /\ IF who = None THEN Fail(ErrBadOrigin)
           ELSE /\ ItemQuantities' = insert(ItemQuantities, item_id, q)
                /\ events' = << <<"ItemRemoved", who[1], item_id, quantity>> >>
                /\ result' = Ok
                /\ payment' = None
                /\ UNCHANGED <<Items, ItemOwners, ItemPrices, NextItemId>>

\* ------------------------------------------------------------ remove_item
remove_item(origin, item_id, quantity) ==
    LET who == ensure_signed(origin)
        q == saturating_sub(item_quantity(item_id), quantity)
    IN  /\ Enter([op |-> "remove_item", origin |-> origin,
                  item_id |-> item_id, quantity |-> quantity])
        /\ IF who = None THEN Fail(ErrBadOrigin)
           ELSE /\ ItemQuantities' = insert(ItemQuantities, item_id, q)
                /\ events' = << <<"ItemRemoved", who[1], item_id, q>> >>
                /\ result' = Ok
                /\ payment' = None
                /\ UNCHANGED <<Items, ItemOwners, ItemPrices, NextItemId>>

\* ------------------------------------------------------------ update_item
\* The expect() on the price read panics when no price is stored: the call
\* then ends in Panic, and the runtime discards what it wrote.
Panic == "panic: Item exists; Item price must exists; qed"

update_quantities_M(item_id, quantity) ==
    IF quantity # None
    THEN insert(ItemQuantities, item_id,
                saturating_add(item_quantity(item_id), quantity[1]))
    ELSE ItemQuantities

\* if let Some(quantity) = quantity { ItemQuantities::insert(..) }
update_quantities(item_id, quantity) ==
    IF quantity # None
    THEN insert(ItemQuantities, item_id, quantity[1])
    ELSE ItemQuantities

\* if let Some(price) = price { ItemPrices::insert(..) }
update_prices(item_id, price) ==
    IF price # None
    THEN insert(ItemPrices, item_id, price[1])
    ELSE ItemPrices

\* quantity and price are Option values.
update_item(origin, item_id, quantity, price) ==
    LET who == ensure_signed(origin)
        quantities == update_quantities(item_id, quantity)
        prices == update_prices(item_id, price)
        new_quantity == IF quantities[item_id] = None THEN 0
                        ELSE quantities[item_id][1]
        new_price == prices[item_id]
    IN  /\ Enter([op |-> "update_item", origin |-> origin,
                  item_id |-> item_id, quantity |-> quantity,
                  price |-> price])
        /\ IF who = None THEN Fail(ErrBadOrigin)
           ELSE IF ~item_exists(item_id) THEN Fail(ErrNotExist)
           ELSE IF new_price = None THEN Fail(Panic)
           ELSE /\ ItemQuantities' = quantities
                /\ ItemPrices' = prices
                /\ events' = << <<"ItemUpdated", who[1], item_id,
                                  new_quantity, new_price[1]>> >>
                /\ result' = Ok
                /\ payment' = None
                /\ UNCHANGED <<Items, ItemOwners, NextItemId>>

\* ---------------------------------------------------------- purchase_item
same_asset_M(listed, max_total_price) == listed[2] = max_total_price[2]

\* if item_price.0 == max_total_price.0
same_asset(listed, max_total_price) == listed[1] = max_total_price[1]

price_covered_M(total_price_amount, max_total_price) ==
    total_price_amount <= max_total_price[2]

\* ensure!(total_price_amount < max_total_price.1, ...)
price_covered(total_price_amount, max_total_price) ==
    total_price_amount < max_total_price[2]

\* generic_asset::make_transfer_with_event(&item_price.0, &origin, &seller,
\* total_price_amount), with what it returned.
transfer_call(buyer, seller, listed, total_price_amount, ret) ==
    [kind |-> "transfer", asset_id |-> listed[1], from |-> buyer,
     to |-> seller, amount |-> total_price_amount, ret |-> ret]

swap_call_M(buyer, seller, listed, max_total_price, ret) ==
    [kind |-> "swap", buyer |-> buyer, recipient |-> seller,
     asset_sold |-> listed[1], asset_bought |-> max_total_price[1],
     buy_amount |-> listed[2], max_paying_amount |-> max_total_price[2],
     fee_rate |-> fee_rate, ret |-> ret]

\* cennzx_spot::make_asset_swap_output(buyer, recipient, asset_sold,
\* asset_bought, buy_amount, max_paying_amount, fee_rate), with what it
\* returned.
swap_call(buyer, seller, listed, max_total_price, ret) ==
    [kind |-> "swap", buyer |-> buyer, recipient |-> seller,
     asset_sold |-> max_total_price[1], asset_bought |-> listed[1],
     buy_amount |-> listed[2], max_paying_amount |-> max_total_price[2],
     fee_rate |-> fee_rate, ret |-> ret]

commit_quantity_M(item_id, new_quantity, ret) ==
    insert(ItemQuantities, item_id, new_quantity)

\* The `?` on the payment call and the insert of new_quantity after it.
commit_quantity(item_id, new_quantity, ret) ==
    IF ret = Ok
    THEN insert(ItemQuantities, item_id, new_quantity)
    ELSE ItemQuantities

purchase_item_M(origin, quantity, item_id, max_total_price) ==
    LET who == ensure_signed(origin)
        new_quantity == checked_sub(item_quantity(item_id), quantity)
        price == item_price(item_id)
        seller == item_owner(item_id)
        total_price_amount == checked_mul(price[1][2], sa(quantity))
        same == same_asset(price[1], max_total_price)
        paid(ret) ==
            IF same
            THEN transfer_call(who[1], seller[1], price[1],
                               total_price_amount[1], ret)
            ELSE swap_call(who[1], seller[1], price[1], max_total_price, ret)
    IN  /\ Enter([op |-> "purchase_item", origin |-> origin,
                  quantity |-> quantity, item_id |-> item_id,
                  max_total_price |-> max_total_price])
        /\ IF who = None THEN Fail(ErrBadOrigin)
           ELSE IF price = None THEN Fail(ErrNoPrice)
           ELSE IF seller = None THEN Fail(ErrNoOwner)
           ELSE IF new_quantity = None THEN Fail(ErrQuantity)
           ELSE IF total_price_amount = None THEN Fail(ErrOverflow)
           ELSE IF same /\ ~price_covered(total_price_amount[1], max_total_price)
                THEN Fail(ErrPriceLow)
           ELSE \E ret \in PaymentReturns :
                /\ payment' = Some(paid(ret))
                /\ ItemQuantities' =
                       commit_quantity(item_id, new_quantity[1], ret)
                /\ events' = IF ret = Ok
                             THEN << <<"ItemSold", who[1], item_id, quantity>> >>
                             ELSE <<>>
                /\ result' = ret
                /\ UNCHANGED <<Items, ItemOwners, ItemPrices, NextItemId>>

\* ret is what the payment primitive returns when it is called.
purchase_item(origin, quantity, item_id, max_total_price) ==
    LET who == ensure_signed(origin)
        new_quantity == checked_sub(item_quantity(item_id), quantity)
        price == item_price(item_id)
        seller == item_owner(item_id)
        total_price_amount == checked_mul(price[1][2], sa(quantity))
        same == same_asset(price[1], max_total_price)
        paid(ret) ==
            IF same
            THEN transfer_call(who[1], seller[1], price[1],
                               total_price_amount[1], ret)
            ELSE swap_call(who[1], seller[1], price[1], max_total_price, ret)
    IN  /\ Enter([op |-> "purchase_item", origin |-> origin,
                  quantity |-> quantity, item_id |-> item_id,
                  max_total_price |-> max_total_price])
        /\ IF who = None THEN Fail(ErrBadOrigin)
           ELSE IF new_quantity = None THEN Fail(ErrQuantity)
           ELSE IF price = None THEN Fail(ErrNoPrice)
           ELSE IF seller = None THEN Fail(ErrNoOwner)
           ELSE IF total_price_amount = None THEN Fail(ErrOverflow)
           ELSE IF same /\ ~price_covered(total_price_amount[1], max_total_price)
                THEN Fail(ErrPriceLow)
           ELSE \E ret \in PaymentReturns :
                /\ payment' = Some(paid(ret))
                /\ ItemQuantities' =
                       commit_quantity(item_id, new_quantity[1], ret)
                /\ events' = IF ret = Ok
                             THEN << <<"ItemSold", who[1], item_id, quantity>> >>
                             ELSE <<>>
                /\ result' = ret
                /\ UNCHANGED <<Items, ItemOwners, ItemPrices, NextItemId>>

\* --------------------------------------------------------------- dispatch
\* The call has returned: its outcome is handed back and the next call can
\* be dispatched.
dispatched ==
    /\ call # None
    /\ call' = None
    /\ pre' = None
    /\ result' = Ok
    /\ payment' = None
    /\ events' = <<>>
    /\ UNCHANGED <<storage, fee_rate>>

\* The fee rate is storage of cennzx_spot; it changes between calls.
set_fee_rate(rate) ==
    /\ call = None
    /\ fee_rate # rate
    /\ fee_rate' = rate
    /\ UNCHANGED <<storage, call, pre, result, payment, events>>

\* ------------------------------------------------------------------- Next
Next ==
    \/ \E o \in Origins, q \in U32, it \in ItemValues, p \in ListPrices :
          create_item(o, q, it, p) /\ UNCHANGED added
    \/ \E o \in Origins, id \in ItemIds, q \in U32 :
          add_item(o, id, q) /\ UNCHANGED added
    \/ \E o \in Origins, id \in ItemIds, q \in U32 :
          remove_item(o, id, q) /\ UNCHANGED added
    \/ \E o \in Origins, id \in ItemIds, q \in Option(U32),
          p \in Option(ListPrices) :
          update_item(o, id, q, p) /\ UNCHANGED added
    \/ \E o \in Origins, q \in U32, id \in ItemIds, m \in Prices :
          purchase_item(o, q, id, m) /\ UNCHANGED added
    \/ dispatched /\ UNCHANGED added
    \/ \E r \in FeeRates : set_fee_rate(r) /\ UNCHANGED added

Spec == Init /\ [][Next]_vars

\* ------------------------------------------------- runs of add_item calls
\* The same calls, with `added` following each id's run of add_item calls:
\* an add_item by a signed account extends the run of its id, any other
\* call on an id starts a new run from the quantity it leaves. The sum of a
\* run is followed up to SumCap, and the calls are made by one account at
\* one listing price to keep the runs within reach.
SumCap == 4
RunOrigins == {<<"Signed", "alice">>, <<"Unsigned">>}
RunPrice == <<"assetA", 1>>
RunOffers == {<<"assetA", BalanceMax>>, <<"assetB", 1>>}

Extend(id, d) == [added EXCEPT ![id].sum = @ + d]
Restart(id) ==
    [added EXCEPT ![id] =
        [q0 |-> IF ItemQuantities'[id] = None THEN 0
                ELSE ItemQuantities'[id][1],
         sum |-> 0]]

NextRuns ==
    \/ \E o \in RunOrigins, id \in ItemIds, d \in U32 :
          /\ added[id].sum + d <= SumCap
          /\ add_item(o, id, d)
          /\ added' = IF Signed(o) THEN Extend(id, d) ELSE added
    \/ \E o \in RunOrigins, id \in ItemIds, d \in U32 :
          remove_item(o, id, d) /\ added' = Restart(id)
    \/ \E o \in RunOrigins, q \in U32, it \in ItemValues :
          create_item(o, q, it, RunPrice) /\ added' = Restart(NextItemId)
    \/ \E o \in RunOrigins, id \in ItemIds, q \in Option(U32) :
          update_item(o, id, q, None) /\ added' = Restart(id)
    \/ \E o \in RunOrigins, q \in U32, id \in ItemIds, m \in RunOffers :
          purchase_item(o, q, id, m) /\ added' = Restart(id)
    \/ dispatched /\ UNCHANGED added

SpecRuns == Init /\ [][NextRuns]_vars

\* ============================================================= properties
\* The call that just ran, and the storage it ran on.
args == call[1]
Ran(op) == call # None /\ call[1].op = op
preItems == pre[1]
preOwners == pre[2]
preQuantities == pre[3]
prePrices == pre[4]
preNextItemId == pre[5]
pre_quantity(id) == IF pre[3][id] = None THEN 0 ELSE pre[3][id][1]

\* A purchase_item call by a signed account whose quantity, price, owner
\* and overflow checks pass on the storage it ran on.
PurchaseReachesBranch ==
    /\ Ran("purchase_item")
    /\ Signed(args.origin)
    /\ args.quantity <= pre_quantity(args.item_id)
    /\ prePrices[args.item_id] # None
    /\ preOwners[args.item_id] # None
    /\ prePrices[args.item_id][1][2] * args.quantity <= BalanceMax

listed_price == prePrices[args.item_id][1]
total_price == listed_price[2] * args.quantity

\* C1: when the payment primitive called by purchase_item returns a
\* failure, purchase_item returns that failure and the four maps and
\* NextItemId are as before the call; the quantity map is written by a
\* purchase only when the payment call returned success.
C1_PaymentFailureLeavesStorage ==
    Ran("purchase_item") =>
        /\ (payment # None /\ payment[1].ret # Ok) =>
               (result = payment[1].ret /\ storage = pre)
        /\ (ItemQuantities # preQuantities) =>
               (payment # None /\ payment[1].ret = Ok)

C1_Witness ==
    /\ Ran("purchase_item")
    /\ payment # None
    /\ payment[1].ret # Ok
    /\ args.quantity > 0
    /\ pre_quantity(args.item_id) >= args.quantity

\* C2: a purchase of n units of an item with stored quantity q by a signed
\* account leaves exactly q - n when it succeeds, is rejected with "Not
\* enough quantity" and leaves the quantity map as it was when n > q, and
\* in every case leaves at least q - n and at least 0.
C2_PurchaseDecreasesByExactly ==
    (Ran("purchase_item") /\ Signed(args.origin)) =>
        LET q == pre_quantity(args.item_id)
            n == args.quantity
        IN  /\ (n > q) => (result = ErrQuantity /\ ItemQuantities = preQuantities)
            /\ (result = Ok) =>
                   /\ n <= q
                   /\ ItemQuantities =
                          [preQuantities EXCEPT ![args.item_id] = Some(q - n)]
            /\ item_quantity(args.item_id) >= 0
            /\ item_quantity(args.item_id) >= q - n
            /\ item_quantity(args.item_id) <= q

C2_Witness ==
    /\ Ran("purchase_item")
    /\ result = Ok
    /\ args.quantity > 0
    /\ pre_quantity(args.item_id) > args.quantity

\* C3: on the same-asset path a purchase succeeds only if price.amount *
\* quantity is strictly below max_total_price.amount; an offer of exactly
\* the total (or less) is rejected with "User paying price too low" and
\* the storage is unchanged; when the check passes, the direct transfer,
\* and no swap, is called from the buyer to the item owner for exactly
\* price.amount * quantity of the price asset.
C3_SameAssetStrictPrice ==
    (PurchaseReachesBranch /\ listed_price[1] = args.max_total_price[1]) =>
        /\ (result = Ok) => (total_price < args.max_total_price[2])
        /\ (total_price >= args.max_total_price[2]) =>
               (result = ErrPriceLow /\ storage = pre /\ payment = None)
        /\ (total_price < args.max_total_price[2]) =>
               /\ payment # None
               /\ payment[1] =
                      [kind |-> "transfer",
                       asset_id |-> listed_price[1],
                       from |-> args.origin[2],
                       to |-> preOwners[args.item_id][1],
                       amount |-> total_price,
                       ret |-> result]

\* The scaled scenario: a purchase at exactly the total is rejected.
C3_Witness ==
    /\ PurchaseReachesBranch
    /\ listed_price[1] = args.max_total_price[1]
    /\ args.quantity > 0
    /\ total_price = args.max_total_price[2]
    /\ result = ErrPriceLow

\* C4: on the cross-asset path purchase_item calls the swap with buyer =
\* caller, recipient = item owner, asset sold = max_total_price.asset,
\* asset bought = price.asset, buy amount = price.amount (the unit price,
\* whatever the quantity), max paying amount = max_total_price.amount and
\* the current fee rate; it never fails with "User paying price too low".
C4_CrossAssetSwapArguments ==
    (PurchaseReachesBranch /\ listed_price[1] # args.max_total_price[1]) =>
        /\ payment # None
        /\ payment[1] =
               [kind |-> "swap",
                buyer |-> args.origin[2],
                recipient |-> preOwners[args.item_id][1],
                asset_sold |-> args.max_total_price[1],
                asset_bought |-> listed_price[1],
                buy_amount |-> listed_price[2],
                max_paying_amount |-> args.max_total_price[2],
                fee_rate |-> fee_rate,
                ret |-> result]
        /\ result # ErrPriceLow

\* A swap for two units whose total exceeds the offered maximum.
C4_Witness ==
    /\ PurchaseReachesBranch
    /\ listed_price[1] # args.max_total_price[1]
    /\ args.quantity > 1
    /\ total_price > args.max_total_price[2]
    /\ total_price # listed_price[2]
    /\ payment # None
    /\ payment[1].kind = "swap"
    /\ result = Ok

\* The ids that have an Items entry in the storage the call ran on: one
\* per successful create_item so far.
preAllocated == {i \in ItemIds : preItems[i] # None}

C5_AllocationState ==
    /\ (Ran("create_item") /\ Signed(args.origin)) =>
           /\ (result = ErrNoItemId) <=> (preNextItemId = ItemIdMax)
           /\ (result # Ok) => (storage = pre)
           /\ (result = Ok) =>
                  /\ events[1][3] = preNextItemId
                  /\ preNextItemId = Cardinality(preAllocated)
                  /\ preNextItemId \notin preAllocated
                  /\ Items[preNextItemId] # None
                  /\ NextItemId = preNextItemId + 1
    /\ (call # None /\ ~(Ran("create_item") /\ result = Ok)) =>
           NextItemId = preNextItemId

C5_AllocationStep ==
    (NextItemId' # NextItemId) =>
        /\ call' # None
        /\ call'[1].op = "create_item"
        /\ result' = Ok
        /\ NextItemId' = NextItemId + 1

\* C5: the N-th successful create_item (from 0) is given id N, the number
\* of successful allocations before it, and advances NextItemId by one; a
\* create_item by a signed account fails with "No new item id is
\* available." exactly when NextItemId is the largest ItemId, and then the
\* storage is unchanged; no other step changes NextItemId, which only
\* grows, so no id is given out twice.
C5_IdAllocation == []C5_AllocationState /\ [][C5_AllocationStep]_vars

\* The second successful allocation.
C5_Witness ==
    /\ Ran("create_item")
    /\ result = Ok
    /\ preNextItemId = 1
    /\ events[1][3] = 1

\* C6: after a successful create_item(caller, quantity, item, price) the
\* allocated id holds item, caller, quantity and price in the four maps,
\* also over a quantity entry that add_item or remove_item wrote for the
\* id before it was created; a create_item by a signed account fails only
\* when the id allocation fails.
C6_CreateWritesAllFourMaps ==
    Ran("create_item") =>
        /\ (result = Ok) =>
               LET i == preNextItemId
               IN  /\ Items[i] = Some(args.item)
                   /\ ItemOwners[i] = Some(args.origin[2])
                   /\ ItemQuantities[i] = Some(args.quantity)
                   /\ ItemPrices[i] = Some(args.price)
        /\ (Signed(args.origin) /\ result # Ok) =>
               (result = ErrNoItemId /\ checked_add(preNextItemId, 1) = None)

\* The id had a quantity entry, other than the one supplied, when created.
C6_Witness ==
    /\ Ran("create_item")
    /\ result = Ok
    /\ preQuantities[preNextItemId] # None
    /\ preQuantities[preNextItemId] # Some(args.quantity)
    /\ ItemQuantities[preNextItemId] = Some(args.quantity)

Max(a, b) == IF a >= b THEN a ELSE b
Min(a, b) == IF a <= b THEN a ELSE b

\* C8: remove_item(id, d) by a signed account on an id with stored
\* quantity q (0 without an entry) returns Ok and stores max(q - d, 0),
\* for every q and d of the quantity type; nothing else is written.
C8_RemoveFloorsAtZero ==
    (Ran("remove_item") /\ Signed(args.origin)) =>
        LET q == pre_quantity(args.item_id)
            d == args.quantity
        IN  /\ result = Ok
            /\ ItemQuantities =
                   [preQuantities EXCEPT ![args.item_id] = Some(Max(q - d, 0))]
            /\ item_quantity(args.item_id) \in U32
            /\ <<Items, ItemOwners, ItemPrices, NextItemId>> =
                   <<preItems, preOwners, prePrices, preNextItemId>>

\* More is removed than is stored.
C8_Witness ==
    /\ Ran("remove_item")
    /\ result = Ok
    /\ pre_quantity(args.item_id) > 0
    /\ args.quantity > pre_quantity(args.item_id)
    /\ ItemQuantities[args.item_id] = Some(0)

\* C9: update_item by a signed account on an id without an Items entry
\* fails with "Item did not exist" and leaves the four maps and NextItemId
\* as they were, also when the id has a quantity entry and both a quantity
\* and a price are supplied.
C9_UpdateOfMissingItemWritesNothing ==
    (Ran("update_item") /\ Signed(args.origin)
        /\ preItems[args.item_id] = None) =>
        (result = ErrNotExist /\ storage = pre)

\* The id has only a quantity entry; a quantity and a price are supplied.
C9_Witness ==
    /\ Ran("update_item")
    /\ result = ErrNotExist
    /\ preItems[args.item_id] = None
    /\ preQuantities[args.item_id] # None
    /\ args.quantity # None
    /\ args.price # None
    /\ args.quantity # preQuantities[args.item_id]

\* C10: update_item by a signed account on an existing item stores the
\* supplied quantity as it is when one is supplied and the supplied price
\* when one is supplied; an entry whose parameter is not supplied, the
\* entries of every other id, Items, ItemOwners and NextItemId are as before.
C10_UpdateOverwritesWhatIsSupplied ==
    (Ran("update_item") /\ Signed(args.origin)
        /\ preItems[args.item_id] # None) =>
        /\ result = Ok
        /\ ItemQuantities =
               IF args.quantity # None
               THEN [preQuantities EXCEPT ![args.item_id] = args.quantity]
               ELSE preQuantities
        /\ ItemPrices =
               IF args.price # None
               THEN [prePrices EXCEPT ![args.item_id] = args.price]
               ELSE prePrices
        /\ <<Items, ItemOwners, NextItemId>> =
               <<preItems, preOwners, preNextItemId>>

\* Only a quantity is supplied, below the stored one, with another item
\* in the maps.
C10_Witness ==
    /\ Ran("update_item")
    /\ result = Ok
    /\ args.quantity # None
    /\ args.price = None
    /\ args.quantity[1] < pre_quantity(args.item_id)
    /\ ItemQuantities[args.item_id] = args.quantity
    /\ \E j \in ItemIds : j # args.item_id /\ Items[j] # None

\* C7: a signed add_item returns Ok, and after any run of add_item(id, d_1
\* .. d_k) calls with no other call on the id in between, started at
\* stored quantity q0 (0 without an entry), the stored quantity of the id
\* is min(q0 + d_1 + .. + d_k, U32_MAX): it is clamped and never wraps.
C7_AddRunClamps ==
    /\ \A id \in ItemIds :
           item_quantity(id) = Min(added[id].q0 + added[id].sum, U32_MAX)
    /\ (Ran("add_item") /\ Signed(args.origin)) => result = Ok

\* A run of at least two calls (each adds at most U32_MAX) from a non-zero
\* quantity whose exact sum is beyond U32_MAX.
C7_Witness ==
    /\ Ran("add_item")
    /\ result = Ok
    /\ added[args.item_id].q0 > 0
    /\ added[args.item_id].sum > U32_MAX
    /\ args.quantity > 0
    /\ ItemQuantities[args.item_id] = Some(U32_MAX)

C11_CreatedStep ==
    \A i \in ItemIds :
        (Items[i] # None) =>
            (Items'[i] = Items[i] /\ ItemOwners'[i] = ItemOwners[i])

C11_OwnerIsCreator ==
    (Ran("create_item") /\ result = Ok) =>
        /\ preItems[preNextItemId] = None
        /\ preOwners[preNextItemId] = None
        /\ Items[preNextItemId] = Some(args.item)
        /\ ItemOwners[preNextItemId] = Some(args.origin[2])

\* C11: once create_item has created an id, no later step of any call by
\* any caller changes its Items or ItemOwners entry; the owner is written
\* once, by the create_item that made the id, as its caller, and a purchase
\* leaves it with the seller.
C11_ItemAndOwnerImmutable == []C11_OwnerIsCreator /\ [][C11_CreatedStep]_vars

\* A purchase by an account other than the owner has succeeded, and the
\* owner is who it was.
C11_Witness ==
    /\ Ran("purchase_item")
    /\ result = Ok
    /\ args.quantity > 0
    /\ ItemOwners[args.item_id] # Some(args.origin[2])
    /\ ItemOwners[args.item_id] = preOwners[args.item_id]
    /\ Items[args.item_id] # None

\* A purchase_item call that passes every check of the handler.
PurchaseChecksPass ==
    /\ PurchaseReachesBranch
    /\ (listed_price[1] = args.max_total_price[1]) =>
           (total_price < args.max_total_price[2])

\* C12: a purchase_item call makes at most one payment call: the transfer
\* only when the price asset is the max_total_price asset and the quantity,
\* price, owner, overflow and price-too-low checks passed, the swap only
\* when the assets differ and the quantity, price, owner and overflow
\* checks passed; a call that fails a check makes no payment call and
\* leaves the storage as it was.
C12_OnePaymentByAssetIdentity ==
    Ran("purchase_item") =>
        /\ Len(payment) <= 1
        /\ (payment # None /\ payment[1].kind = "transfer") =>
               /\ PurchaseChecksPass
               /\ listed_price[1] = args.max_total_price[1]
        /\ (payment # None /\ payment[1].kind = "swap") =>
               /\ PurchaseChecksPass
               /\ listed_price[1] # args.max_total_price[1]
        /\ (payment # None) => payment[1].kind \in {"transfer", "swap"}
        /\ (~PurchaseChecksPass) =>
               (payment = None /\ storage = pre /\ result # Ok)
        /\ PurchaseChecksPass => payment # None

\* The transfer was called, for an amount other than the one offered, and
\* returned Ok.
C12_Witness ==
    /\ Ran("purchase_item")
    /\ payment # None
    /\ payment[1].kind = "transfer"
    /\ payment[1].amount # args.max_total_price[2]
    /\ args.quantity > 1
    /\ result = Ok

\* The id of the call has no entry in any of the four maps.
NoEntries(id) ==
    /\ preItems[id] = None
    /\ preOwners[id] = None
    /\ preQuantities[id] = None
    /\ prePrices[id] = None

\* C13: a purchase_item by a signed account reports the first failing
\* check in the order quantity, price, owner, total price overflow and, on
\* the same-asset path, price too low. On an id without entries a
\* purchase of n > 0 fails with "Not enough quantity" and a purchase of 0
\* with "No item price"; on an id with only a quantity entry q a purchase
\* of n <= q fails with "No item price".
C13_ValidationOrder ==
    (Ran("purchase_item") /\ Signed(args.origin)) =>
        LET id == args.item_id
            n == args.quantity
            q == pre_quantity(id)
        IN  /\ IF n > q THEN result = ErrQuantity
               ELSE IF prePrices[id] = None THEN result = ErrNoPrice
               ELSE IF preOwners[id] = None THEN result = ErrNoOwner
               ELSE IF total_price > BalanceMax THEN result = ErrOverflow
               ELSE IF /\ listed_price[1] = args.max_total_price[1]
                       /\ total_price >= args.max_total_price[2]
                    THEN result = ErrPriceLow
               ELSE payment # None /\ result = payment[1].ret
            /\ (NoEntries(id) /\ n > 0) => result = ErrQuantity
            /\ (NoEntries(id) /\ n = 0) => result = ErrNoPrice
            /\ (preItems[id] = None /\ n <= q) => result = ErrNoPrice

\* Units are bought, within the stored quantity, of an id that has only a
\* quantity entry.
C13_Witness ==
    /\ Ran("purchase_item")
    /\ Signed(args.origin)
    /\ preItems[args.item_id] = None
    /\ preQuantities[args.item_id] # None
    /\ args.quantity > 0
    /\ args.quantity <= pre_quantity(args.item_id)
    /\ result = ErrNoPrice

\* C14: when price.amount * quantity exceeds the Balance type, a purchase
\* that passed the quantity, price and owner checks fails with "Total
\* price overflow", makes no payment call and leaves the storage as it
\* was, on the same-asset and on the cross-asset path; the amount compared
\* with the maximum and transferred is always the exact product.
C14_TotalPriceChecked ==
    (Ran("purchase_item") /\ Signed(args.origin)
        /\ args.quantity <= pre_quantity(args.item_id)
        /\ prePrices[args.item_id] # None
        /\ preOwners[args.item_id] # None) =>
        /\ (total_price > BalanceMax) =>
               (result = ErrOverflow /\ payment = None /\ storage = pre)
        /\ (result = ErrOverflow) => (total_price > BalanceMax)
        /\ (payment # None /\ payment[1].kind = "transfer") =>
               /\ payment[1].amount = total_price
               /\ payment[1].amount \in Balances
               /\ payment[1].amount < args.max_total_price[2]

\* The total overflows on the cross-asset path, where it is not passed on.
C14_Witness ==
    /\ Ran("purchase_item")
    /\ Signed(args.origin)
    /\ prePrices[args.item_id] # None
    /\ listed_price[1] # args.max_total_price[1]
    /\ total_price > BalanceMax
    /\ result = ErrOverflow
    /\ payment = None

\* The ids that have an entry in a map.
Keys(map) == {i \in ItemIds : map[i] # None}

\* C15: in every reachable state Items, ItemOwners and ItemPrices have the
\* same keys, the ids below NextItemId, so the largest ItemId is never
\* given to an item; and update_item never ends in the panic of its
\* "Item price must exists" expectation.
C15_KeySetsAreIdsBelowNext ==
    /\ Keys(Items) = {i \in ItemIds : i < NextItemId}
    /\ Keys(ItemOwners) = Keys(Items)
    /\ Keys(ItemPrices) = Keys(Items)
    /\ ItemIdMax \notin Keys(Items)
    /\ NextItemId \in ItemIds
    /\ result # Panic
    /\ (Ran("update_item") /\ Signed(args.origin)
           /\ preItems[args.item_id] # None) =>
           (prePrices[args.item_id] # None /\ result = Ok)

\* Every id that can be created has been, and an update of one without a
\* price parameter has passed the expectation.
C15_Witness ==
    /\ Ran("update_item")
    /\ result = Ok
    /\ args.price = None
    /\ NextItemId = ItemIdMax
    /\ Keys(Items) = ItemIds \ {ItemIdMax}

\* C16: add_item and remove_item by a signed account on an id without an
\* Items entry return Ok, take the quantity of an id without a quantity
\* entry as 0 and write the quantity entry, and write no Items, ItemOwners
\* or ItemPrices entry; a purchase_item succeeds, or calls a payment
\* primitive, only on an id that has Items, owner and price entries.
C16_QuantityOnlyIdsNotPurchasable ==
    /\ (Ran("add_item") /\ Signed(args.origin)
           /\ preItems[args.item_id] = None) =>
           /\ result = Ok
           /\ ItemQuantities[args.item_id] =
                  Some(Min(pre_quantity(args.item_id) + args.quantity, U32_MAX))
           /\ (preQuantities[args.item_id] = None) =>
                  ItemQuantities[args.item_id] = Some(args.quantity)
           /\ <<Items, ItemOwners, ItemPrices>> =
                  <<preItems, preOwners, prePrices>>
           /\ Items[args.item_id] = None
    /\ (Ran("remove_item") /\ Signed(args.origin)
           /\ preItems[args.item_id] = None) =>
           /\ result = Ok
           /\ ItemQuantities[args.item_id] =
                  Some(Max(pre_quantity(args.item_id) - args.quantity, 0))
           /\ (preQuantities[args.item_id] = None) =>
                  ItemQuantities[args.item_id] = Some(0)
           /\ <<Items, ItemOwners, ItemPrices>> =
                  <<preItems, preOwners, prePrices>>
           /\ Items[args.item_id] = None
    /\ (Ran("purchase_item") /\ (result = Ok \/ payment # None)) =>
           /\ preItems[args.item_id] # None
           /\ preOwners[args.item_id] # None
           /\ prePrices[args.item_id] # None
           /\ args.item_id < preNextItemId

\* Units are added to an id that has no entry at all.
C16_Witness ==
    /\ Ran("add_item")
    /\ result = Ok
    /\ NoEntries(args.item_id)
    /\ args.quantity > 0
    /\ ItemQuantities[args.item_id] = Some(args.quantity)
    /\ ItemPrices[args.item_id] = None

\* The event a successful call deposits, from its arguments and the
\* storage it left.
ExpectedEvent ==
    LET who == args.origin[2]
    IN  CASE args.op = "create_item" ->
                 <<"ItemCreated", who, preNextItemId, args.quantity,
                   args.item, args.price>>
          [] args.op = "add_item" ->
                 <<"ItemAdded", who, args.item_id,
                   item_quantity(args.item_id)>>
          [] args.op = "remove_item" ->
                 <<"ItemRemoved", who, args.item_id,
                   item_quantity(args.item_id)>>
          [] args.op = "update_item" ->
                 <<"ItemUpdated", who, args.item_id,
                   item_quantity(args.item_id), ItemPrices[args.item_id][1]>>
          [] args.op = "purchase_item" ->
                 <<"ItemSold", who, args.item_id, args.quantity>>

\* C17: a call deposits exactly one event when it returns Ok and none when
\* it returns an error, and the event tells of the storage as the call
\* left it: ItemSold(buyer, id, quantity) only when the payment call
\* returned Ok and the new quantity is stored, ItemAdded and ItemRemoved
\* with the stored (clamped) quantity, ItemUpdated with the stored
\* quantity and price.
C17_OneEventPerSuccess ==
    /\ (call = None) => events = <<>>
    /\ (call # None /\ result # Ok) => events = <<>>
    /\ (call # None /\ result = Ok) => events = <<ExpectedEvent>>
    /\ (Ran("purchase_item") /\ events # <<>>) =>
           /\ payment # None
           /\ payment[1].ret = Ok
           /\ ItemQuantities[args.item_id] =
                  Some(pre_quantity(args.item_id) - args.quantity)
    /\ (Ran("add_item") /\ events # <<>>) =>
           events[1][4] = Min(pre_quantity(args.item_id) + args.quantity,
                              U32_MAX)
    /\ (Ran("remove_item") /\ events # <<>>) =>
           events[1][4] = Max(pre_quantity(args.item_id) - args.quantity, 0)

\* An add_item whose sum was clamped has deposited the clamped quantity.
C17_Witness ==
    /\ Ran("add_item")
    /\ result = Ok
    /\ Len(events) = 1
    /\ pre_quantity(args.item_id) + args.quantity > U32_MAX
    /\ args.quantity < U32_MAX
    /\ events[1] = <<"ItemAdded", args.origin[2], args.item_id, U32_MAX>>
====
